---- MODULE Spec2Model ----
(***************************************************************************)
(* Model of script.js of the dog-age calculator: the age conversion, the   *)
(* localStorage wrappers, the calculation flow, the theme switch, the      *)
(* startup restore and the event handlers bound at DOMContentLoaded.       *)
(*                                                                         *)
(* Strings are sequences of tokens. A token is either one character that   *)
(* JSON treats specially (double quote, backslash, newline), one plain     *)
(* character (the characters of a date), or a run of plain characters      *)
(* that the program only copies (the fixed messages).                      *)
(*                                                                         *)
(* Time is counted in ticks of 36 seconds since the epoch, so that a year  *)
(* of 365.25 days and the 0.01-year clamp are both whole numbers of ticks; *)
(* the clock is read at whole ticks only.                                  *)
(***************************************************************************)
EXTENDS Integers, Sequences, FiniteSets, TLC

VARIABLES
  lastEvent,   \* the event whose handler ran last: "load" (fresh document, no handler bound yet), "DOMContentLoaded", "click", "change" (date field), "toggle"; a keydown counts as the click it dispatches
  dateInput,   \* dateInput.value
  resultDiv,   \* resultDiv.textContent
  rootTheme,   \* the data-theme attribute of the root element
  checked,     \* themeToggle.checked
  switchText,  \* switchText.textContent
  store,       \* localStorage: key -> raw string, or null
  storage,     \* condition of localStorage: "ok", "full" (setItem raises), "disabled" (every access raises)
  now,         \* the clock, in ticks
  lastText,    \* history: the text the latest performCalculation handed to displayResult, <<>> before the first
  arg,         \* argument handed to dogAgeToHuman when it is called on its own
  ret          \* what dogAgeToHuman returned then

vars == <<lastEvent, dateInput, resultDiv, rootTheme, checked, switchText, store, storage, now, lastText, arg, ret>>

(***************************************************************************)
(* JavaScript values                                                       *)
(***************************************************************************)
JNull == [t |-> "null", s |-> <<>>]
Str(s) == [t |-> "str", s |-> s]
Truthy(v) == v.t = "str" /\ v.s # <<>>

DQ == "\""
BS == "\\"
NL == "\n"

LS_KEYS == [BIRTH |-> "dog_birth_date_v1", RESULT |-> "dog_human_result_v1", THEME |-> "dog_theme_v1"]
Keys == {LS_KEYS.BIRTH, LS_KEYS.RESULT, LS_KEYS.THEME}

(***************************************************************************)
(* JSON.stringify and JSON.parse on strings                                *)
(***************************************************************************)
RECURSIVE Escape(_)
Escape(s) ==
  IF s = <<>> THEN <<>>
  ELSE LET c == Head(s) IN
       (IF c = DQ THEN <<BS, DQ>>
        ELSE IF c = BS THEN <<BS, BS>>
        ELSE IF c = NL THEN <<BS, "n">>
        ELSE <<c>>) \o Escape(Tail(s))

JSONStringify(s) == <<DQ>> \o Escape(s) \o <<DQ>>

\* What JSON.parse gives when it throws.
SyntaxError == [ok |-> FALSE, v |-> JNull]
\* The body of a string literal, unescaped; ok is FALSE for a body JSON rejects.
RECURSIVE Unescape(_)
Unescape(s) ==
  IF s = <<>> THEN [ok |-> TRUE, s |-> <<>>]
  ELSE LET c == Head(s) IN
       IF c = DQ \/ c = NL THEN [ok |-> FALSE, s |-> <<>>]
       ELSE IF c = BS THEN
         IF Len(s) < 2 THEN [ok |-> FALSE, s |-> <<>>]
         ELSE LET e == s[2]
                  d == IF e = DQ THEN <<DQ>> ELSE IF e = BS THEN <<BS>> ELSE IF e = "n" THEN <<NL>> ELSE <<>>
                  r == Unescape(SubSeq(s, 3, Len(s)))
              IN IF d = <<>> \/ ~r.ok THEN [ok |-> FALSE, s |-> <<>>]
                 ELSE [ok |-> TRUE, s |-> d \o r.s]
       ELSE LET r == Unescape(Tail(s))
            IN IF r.ok THEN [ok |-> TRUE, s |-> <<c>> \o r.s] ELSE r

\* JSON.parse(raw): [ok |-> FALSE] stands for the SyntaxError it throws. The raw
\* strings of the model are string literals, the literal null and malformed text.
JSONParse(raw) ==
  IF raw = <<"null">> THEN [ok |-> TRUE, v |-> JNull]
  ELSE IF Len(raw) >= 2 /\ raw[1] = DQ /\ raw[Len(raw)] = DQ THEN
    LET r == Unescape(SubSeq(raw, 2, Len(raw) - 1))
    IN IF r.ok THEN [ok |-> TRUE, v |-> Str(r.s)] ELSE SyntaxError
  ELSE SyntaxError

(***************************************************************************)
(* Local storage wrappers                                                  *)
(***************************************************************************)
\* saveToLS(key, value): the store after the call; a raising setItem is caught.
saveToLS(st, cond, key, value) ==
  IF cond = "ok" THEN [st EXCEPT ![key] = Str(JSONStringify(value))] ELSE st

\* Mutant: text that fails to parse is returned as it is
readFromLS_RawOnBadJSON(st, cond, key) ==
  IF cond = "disabled" THEN JNull
  ELSE LET raw == st[key] IN
       IF Truthy(raw)
       THEN LET p == JSONParse(raw.s) IN IF p.ok THEN p.v ELSE raw
       ELSE JNull

\* readFromLS(key): the value returned; every exception is caught and gives null.
readFromLS(st, cond, key) ==
  IF cond = "disabled" THEN JNull
  ELSE LET raw == st[key] IN
       IF Truthy(raw)
       THEN LET p == JSONParse(raw.s) IN IF p.ok THEN p.v ELSE JNull
       ELSE JNull

(***************************************************************************)
(* Numbers. A JavaScript number is finite, NaN or an infinity. Elapsed     *)
(* years are kept in ticks (YearTicks ticks = 1.0), logarithms and human   *)
(* ages in units of 1/LnScale.                                             *)
(***************************************************************************)
Fin(v) == [k |-> "fin", v |-> v]
NaN == [k |-> "nan", v |-> 0]
PosInf == [k |-> "inf", v |-> 0]
NegInf == [k |-> "ninf", v |-> 0]
NumNull == [k |-> "null", v |-> 0]

DayTicks == 2400
\* 1000 * 60 * 60 * 24 * 365.25 ms, in ticks
YearTicks == 876600
\* 0.01 year, in ticks
ClampTicks == 8766

LnScale == 10000
\* ln 2, in millionths
Ln2Micro == 693147
MantissaBits == 16

RECURSIVE Log2(_)
Log2(n) == IF n < 2 THEN 0 ELSE 1 + Log2(n \div 2)
RECURSIVE Pow2(_)
Pow2(k) == IF k = 0 THEN 1 ELSE 2 * Pow2(k - 1)

\* LnScale * ln(n) for an integer n >= 1: n = m * 2^k with 1 <= m < 2, and
\* ln m = 2 * (z + z^3/3 + z^5/5 + z^7/7) with z = (m - 1) / (m + 1).
LnFixed(n) ==
  LET k == Log2(n)
      one == Pow2(MantissaBits)
      m == IF k >= MantissaBits THEN n \div Pow2(k - MantissaBits) ELSE n * Pow2(MantissaBits - k)
      z == ((m - one) * LnScale) \div (m + one)
      z2 == (z * z) \div LnScale
      z3 == (z2 * z) \div LnScale
      z5 == (z3 * z2) \div LnScale
      z7 == (z5 * z2) \div LnScale
  IN (k * Ln2Micro) \div 100 + 2 * (z + z3 \div 3 + z5 \div 5 + z7 \div 7)

\* Math.log(x), x in ticks
MathLog(x) ==
  IF x.k = "fin" THEN
    IF x.v > 0 THEN Fin(LnFixed(x.v) - LnFixed(YearTicks))
    ELSE IF x.v = 0 THEN NegInf ELSE NaN
  ELSE IF x.k = "inf" THEN PosInf
  ELSE NaN

\* x <= 0 and x < 0.01 as JavaScript compares them: false for NaN
LeqZero(x) == (x.k = "fin" /\ x.v <= 0) \/ x.k = "ninf"
LessThanClamp(x) == (x.k = "fin" /\ x.v < ClampTicks) \/ x.k = "ninf"

\* 16 * l + 31
Formula(l) == IF l.k = "fin" THEN Fin(16 * l.v + 31 * LnScale) ELSE l

\* Mutant: no clamp to 0.01
dogAgeToHuman_NoClamp(dogYears) ==
  IF LeqZero(dogYears) THEN NumNull ELSE Formula(MathLog(dogYears))

\* Mutant: everything below 0.01 is refused
dogAgeToHuman_NullBelowClamp(dogYears) ==
  IF LeqZero(dogYears) \/ LessThanClamp(dogYears) THEN NumNull ELSE Formula(MathLog(dogYears))

dogAgeToHuman(dogYears) ==
  IF LeqZero(dogYears) THEN NumNull
  ELSE LET y == IF LessThanClamp(dogYears) THEN Fin(ClampTicks) ELSE dogYears
       IN Formula(MathLog(y))

(***************************************************************************)
(* Dates                                                                   *)
(***************************************************************************)
DigitChars == <<"0", "1", "2", "3", "4", "5", "6", "7", "8", "9">>
IsDigit(c) == \E i \in 1..10 : DigitChars[i] = c
DigitVal(c) == (CHOOSE i \in 1..10 : DigitChars[i] = c) - 1

IsLeap(y) == (y % 4 = 0 /\ y % 100 # 0) \/ y % 400 = 0
DaysInMonth(y, m) ==
  IF m = 2 THEN (IF IsLeap(y) THEN 29 ELSE 28)
  ELSE IF m \in {4, 6, 9, 11} THEN 30 ELSE 31

\* Days from 1970-01-01 to the civil date y-m-d
DaysFromCivil(y, m, d) ==
  LET yy == IF m <= 2 THEN y - 1 ELSE y
      era == yy \div 400
      yoe == yy - era * 400
      mp == IF m > 2 THEN m - 3 ELSE m + 9
      doy == (153 * mp + 2) \div 5 + d - 1
      doe == yoe * 365 + yoe \div 4 - yoe \div 100 + doy
  IN era * 146097 + doe - 719468

\* new Date(val + 'T00:00:00').getTime(), in ticks; NaN for an invalid date.
\* The local time zone is taken to be UTC.
DateParse(val) ==
  IF Len(val) = 10 /\ val[5] = "-" /\ val[8] = "-"
     /\ \A i \in {1, 2, 3, 4, 6, 7, 9, 10} : IsDigit(val[i])
  THEN LET y == 1000 * DigitVal(val[1]) + 100 * DigitVal(val[2]) + 10 * DigitVal(val[3]) + DigitVal(val[4])
           m == 10 * DigitVal(val[6]) + DigitVal(val[7])
           d == 10 * DigitVal(val[9]) + DigitVal(val[10])
       IN IF m \in 1..12 /\ d >= 1 /\ d <= DaysInMonth(y, m)
          THEN Fin(DaysFromCivil(y, m, d) * DayTicks)
          ELSE NaN
  ELSE NaN

(***************************************************************************)
(* Number formatting: String(Number(x.toFixed(digits)))                    *)
(***************************************************************************)
\* n hundredths, n >= 0
FormatHundredths(n) ==
  LET ip == n \div 100
      fr == n % 100
  IN IF fr = 0 THEN <<ToString(ip)>>
     ELSE IF fr % 10 = 0 THEN <<ToString(ip), ".", ToString(fr \div 10)>>
     ELSE <<ToString(ip), ".", ToString(fr \div 10), ToString(fr % 10)>>

\* n tenths with a sign; -0 prints as 0
FormatTenths(neg, n) ==
  LET ip == n \div 10
      fr == n % 10
      sign == IF neg /\ n # 0 THEN <<"-">> ELSE <<>>
  IN sign \o (IF fr = 0 THEN <<ToString(ip)>> ELSE <<ToString(ip), ".", ToString(fr)>>)

\* Number(years.toFixed(2)), years in ticks and >= 0
displayDog(years) == FormatHundredths((years * 200 + YearTicks) \div (2 * YearTicks))

\* Number(humanAge.toFixed(1)), humanAge in units of 1/LnScale
displayHuman(humanAge) ==
  LET a == IF humanAge < 0 THEN -humanAge ELSE humanAge
  IN FormatTenths(humanAge < 0, (a * 20 + LnScale) \div (2 * LnScale))

(***************************************************************************)
(* Messages. The program's texts are Chinese; each is written here as an   *)
(* English run of plain characters. The success text is a template with    *)
(* the two numbers and one newline in it.                                  *)
(***************************************************************************)
MsgInvalidDate == <<"please enter a valid birth date">>
MsgNotBeforeNow == <<"birth date must be earlier than now">>
MsgCalcFailed == <<"calculation failed: input may be unreasonable">>
SuccessText(years, humanAge) ==
  <<"the dog is now about ">> \o displayDog(years) \o <<" dog years old,", NL, "which is about ">>
    \o displayHuman(humanAge) \o <<" in human years.">>

LabelLight == <<"lights on">>
LabelDark == <<"lights off">>

(***************************************************************************)
(* Calculation                                                             *)
(***************************************************************************)
\* displayResult(text): the result area and the store after the call
displayResult(st, cond, text) ==
  [div |-> text, st |-> saveToLS(st, cond, LS_KEYS.RESULT, text)]

\* Mutant: the error branches show their message without saving it
performCalculation_ErrorsNotSaved(val, clock, st, cond) ==
  LET shown(text) == [div |-> text, st |-> st] IN
  IF val = <<>> THEN shown(MsgInvalidDate)
  ELSE LET birth == DateParse(val) IN
    IF birth.k = "nan" THEN shown(MsgInvalidDate)
    ELSE LET years == clock - birth.v IN
      IF years <= 0 THEN shown(MsgNotBeforeNow)
      ELSE LET humanAge == dogAgeToHuman(Fin(years)) IN
        IF humanAge.k # "fin" THEN shown(MsgCalcFailed)
        ELSE displayResult(st, cond, SuccessText(years, humanAge.v))

\* Mutant: the elapsed time is tested with < 0 instead of <= 0
performCalculation_StrictZero(val, clock, st, cond) ==
  IF val = <<>> THEN displayResult(st, cond, MsgInvalidDate)
  ELSE LET birth == DateParse(val) IN
    IF birth.k = "nan" THEN displayResult(st, cond, MsgInvalidDate)
    ELSE LET years == clock - birth.v IN
      IF years < 0 THEN displayResult(st, cond, MsgNotBeforeNow)
      ELSE LET humanAge == dogAgeToHuman(Fin(years)) IN
        IF humanAge.k # "fin" THEN displayResult(st, cond, MsgCalcFailed)
        ELSE displayResult(st, cond, SuccessText(years, humanAge.v))

\* performCalculation() with dateInput.value = val and the clock at clock
performCalculation(val, clock, st, cond) ==
  IF val = <<>> THEN displayResult(st, cond, MsgInvalidDate)
  ELSE LET birth == DateParse(val) IN
    IF birth.k = "nan" THEN displayResult(st, cond, MsgInvalidDate)
    ELSE LET years == clock - birth.v IN
      IF years <= 0 THEN displayResult(st, cond, MsgNotBeforeNow)
      ELSE LET humanAge == dogAgeToHuman(Fin(years)) IN
        IF humanAge.k # "fin" THEN displayResult(st, cond, MsgCalcFailed)
        ELSE displayResult(st, cond, SuccessText(years, humanAge.v))

(***************************************************************************)
(* Theme                                                                   *)
(***************************************************************************)
Dark == <<"dark">>
Light == <<"light">>

\* Mutant: a refused write ends the call before the label is set
applyTheme_StopsAtFailedSave(theme, st, cond) ==
  LET t == IF theme # Dark THEN Light ELSE theme
  IN [root |-> t,
      st |-> saveToLS(st, cond, LS_KEYS.THEME, t),
      checked |-> (t # Light),
      label |-> IF (t = Light) = (cond = "ok") THEN LabelLight ELSE LabelDark]

\* Mutant: the theme is applied as given, without the fallback to light
applyTheme_NoFallback(theme, st, cond) ==
  [root |-> theme,
   st |-> saveToLS(st, cond, LS_KEYS.THEME, theme),
   checked |-> (theme # Light),
   label |-> IF theme = Light THEN LabelLight ELSE LabelDark]

\* applyTheme(theme): the root attribute, the store, the toggle and the label after the call
applyTheme(theme, st, cond) ==
  LET t == IF theme # Dark THEN Light ELSE theme
  IN [root |-> t,
      st |-> saveToLS(st, cond, LS_KEYS.THEME, t),
      checked |-> (t # Light),
      label |-> IF t = Light THEN LabelLight ELSE LabelDark]

(***************************************************************************)
(* Startup restore                                                         *)
(***************************************************************************)
\* Mutant: the restore shows the stored result through displayResult
initFromStorage_SavesResult(field, div, st, cond) ==
  LET storedBirth == readFromLS(st, cond, LS_KEYS.BIRTH)
      storedResult == readFromLS(st, cond, LS_KEYS.RESULT)
      read == readFromLS(st, cond, LS_KEYS.THEME)
      storedTheme == IF Truthy(read) THEN read.s ELSE Light
      shown == displayResult(st, cond, IF Truthy(storedResult) THEN storedResult.s ELSE div)
  IN [field |-> IF Truthy(storedBirth) THEN storedBirth.s ELSE field,
      div |-> shown.div,
      theme |-> applyTheme(storedTheme, shown.st, cond)]

\* Mutant: the restore forgets the result area
initFromStorage_SkipsResult(field, div, st, cond) ==
  LET storedBirth == readFromLS(st, cond, LS_KEYS.BIRTH)
      read == readFromLS(st, cond, LS_KEYS.THEME)
      storedTheme == IF Truthy(read) THEN read.s ELSE Light
  IN [field |-> IF Truthy(storedBirth) THEN storedBirth.s ELSE field,
      div |-> div,
      theme |-> applyTheme(storedTheme, st, cond)]

\* initFromStorage(): the date field, the result area and what applyTheme leaves
initFromStorage(field, div, st, cond) ==
  LET storedBirth == readFromLS(st, cond, LS_KEYS.BIRTH)
      storedResult == readFromLS(st, cond, LS_KEYS.RESULT)
      read == readFromLS(st, cond, LS_KEYS.THEME)
      storedTheme == IF Truthy(read) THEN read.s ELSE Light
  IN [field |-> IF Truthy(storedBirth) THEN storedBirth.s ELSE field,
      div |-> IF Truthy(storedResult) THEN storedResult.s ELSE div,
      theme |-> applyTheme(storedTheme, st, cond)]

(***************************************************************************)
(* Inputs and bounds                                                       *)
(***************************************************************************)
Date_2023_01_01 == <<"2", "0", "2", "3", "-", "0", "1", "-", "0", "1">>
Date_2024_01_01 == <<"2", "0", "2", "4", "-", "0", "1", "-", "0", "1">>
NotADate == <<"not-a-date">>
\* What the user can put in the date field
FieldValues == {<<>>, NotADate, Date_2023_01_01, Date_2024_01_01}

\* The clock is read at these instants: twelve hours before midnight of
\* 2024-01-01, that midnight, twelve hours after it, and then every half year
\* after it.
MaxClock == 2
Midnight == DaysFromCivil(2024, 1, 1) * DayTicks
InstantAt(i) ==
  IF i <= 2 THEN Midnight + (i - 1) * (DayTicks \div 2)
  ELSE Midnight + (i - 2) * (YearTicks \div 2)
StartNow == InstantAt(0)
Instants == {InstantAt(i) : i \in 0..MaxClock}

\* What localStorage holds when the page is first opened: nothing, or what
\* something else left under the three keys: text that is not JSON for the
\* birth date and the result, and a theme this page does not know.
Malformed == <<"{", "oops">>
EmptyStore == [key \in Keys |-> JNull]
ForeignStore ==
  [key \in Keys |-> IF key = LS_KEYS.THEME THEN Str(JSONStringify(<<"blue">>)) ELSE Str(Malformed)]
FirstStores == {EmptyStore, ForeignStore}

\* The document as parsed, before any script has run
FreshField == <<>>
FreshResult == <<>>
FreshTheme == <<>>
FreshLabel == LabelLight

NoCall == [k |-> "none", v |-> 0]
\* Arguments for dogAgeToHuman on its own: multiples of 1/1800 year around
\* zero (18 of them make 0.01), the neighbours of the clamp, and the non-finite numbers.
MaxArgSteps == 60
ArgStep == YearTicks \div 1800
Args ==
  {Fin(i * ArgStep) : i \in (-MaxArgSteps)..MaxArgSteps}
    \cup {Fin(1), Fin(ClampTicks - 1), Fin(ClampTicks + 1), NaN, PosInf, NegInf}

(***************************************************************************)
(* The page                                                                *)
(***************************************************************************)
Ready == lastEvent # "load"

InitPage(conds) ==
  /\ lastEvent = "load"
  /\ dateInput = FreshField
  /\ resultDiv = FreshResult
  /\ rootTheme = FreshTheme
  /\ checked = FALSE
  /\ switchText = FreshLabel
  /\ store \in FirstStores
  /\ storage \in conds
  /\ now = StartNow
  /\ lastText = <<>>

Init ==
  /\ InitPage({"ok", "full", "disabled"})
  /\ arg = Fin(0)
  /\ ret = NoCall

\* document.addEventListener('DOMContentLoaded', ...): restore, then bind the handlers
DOMContentLoaded ==
  /\ lastEvent = "load"
  /\ LET r == initFromStorage(dateInput, resultDiv, store, storage) IN
       /\ dateInput' = r.field
       /\ resultDiv' = r.div
       /\ rootTheme' = r.theme.root
       /\ store' = r.theme.st
       /\ checked' = r.theme.checked
       /\ switchText' = r.theme.label
  /\ lastEvent' = "DOMContentLoaded"
  /\ UNCHANGED <<storage, now, lastText, arg, ret>>

\* btn click handler
ClickHandler ==
  LET r == performCalculation(dateInput, now, store, storage) IN
    /\ resultDiv' = r.div
    /\ lastText' = r.div
    /\ store' = IF dateInput # <<>> THEN saveToLS(r.st, storage, LS_KEYS.BIRTH, dateInput) ELSE r.st
    /\ UNCHANGED <<dateInput, rootTheme, checked, switchText, storage, now, arg, ret>>

Click ==
  /\ Ready
  /\ ClickHandler
  /\ lastEvent' = "click"

\* Mutant: the change handler saves the field even when it is empty
Change_SavesEmpty ==
  /\ Ready
  /\ store' = saveToLS(store, storage, LS_KEYS.BIRTH, dateInput)
  /\ lastEvent' = "change"
  /\ UNCHANGED <<dateInput, resultDiv, rootTheme, checked, switchText, storage, now, lastText, arg, ret>>

\* dateInput change handler
Change ==
  /\ Ready
  /\ store' = IF dateInput # <<>> THEN saveToLS(store, storage, LS_KEYS.BIRTH, dateInput) ELSE store
  /\ lastEvent' = "change"
  /\ UNCHANGED <<dateInput, resultDiv, rootTheme, checked, switchText, storage, now, lastText, arg, ret>>

\* dateInput keydown handler: Enter calls btn.click(), which dispatches click
KeyDown(key) ==
  /\ Ready
  /\ IF key = "Enter"
     THEN ClickHandler /\ lastEvent' = "click"
     ELSE UNCHANGED vars

\* themeToggle change handler: the user has flipped the toggle
Toggle ==
  /\ Ready
  /\ LET flipped == ~checked
         r == applyTheme(IF flipped THEN Dark ELSE Light, store, storage)
     IN /\ rootTheme' = r.root
        /\ store' = r.st
        /\ checked' = r.checked
        /\ switchText' = r.label
  /\ lastEvent' = "toggle"
  /\ UNCHANGED <<dateInput, resultDiv, storage, now, lastText, arg, ret>>

\* The user edits the date field; no handler runs until the change is committed
Type(v) ==
  /\ Ready
  /\ v # dateInput
  /\ dateInput' = v
  /\ UNCHANGED <<lastEvent, resultDiv, rootTheme, checked, switchText, store, storage, now, lastText, arg, ret>>

\* The page is reloaded: a fresh document, the same localStorage
Reload ==
  /\ Ready
  /\ lastEvent' = "load"
  /\ dateInput' = FreshField
  /\ resultDiv' = FreshResult
  /\ rootTheme' = FreshTheme
  /\ checked' = FALSE
  /\ switchText' = FreshLabel
  /\ UNCHANGED <<store, storage, now, lastText, arg, ret>>

\* Time passes
Tick(t) ==
  /\ t > now
  /\ now' = t
  /\ UNCHANGED <<lastEvent, dateInput, resultDiv, rootTheme, checked, switchText, store, storage, lastText, arg, ret>>

\* The quota fills up or frees, storage is disabled or enabled again
StorageChange(c) ==
  /\ c # storage
  /\ storage' = c
  /\ UNCHANGED <<lastEvent, dateInput, resultDiv, rootTheme, checked, switchText, store, now, lastText, arg, ret>>

NextPage ==
  \/ DOMContentLoaded
  \/ Click
  \/ Change
  \/ \E key \in {"Enter", "a"} : KeyDown(key)
  \/ Toggle
  \/ \E v \in FieldValues : Type(v)
  \/ Reload
  \/ \E t \in Instants : Tick(t)

Next ==
  \/ NextPage
  \/ \E c \in {"ok", "full", "disabled"} : StorageChange(c)

Spec == Init /\ [][Next]_vars

\* The page with a localStorage that accepts every read and write
InitOK ==
  /\ InitPage({"ok"})
  /\ arg = Fin(0)
  /\ ret = NoCall

SpecOK == InitOK /\ [][NextPage]_vars

\* dogAgeToHuman called on its own
InitConvert ==
  /\ InitPage({"ok"})
  /\ store = EmptyStore
  /\ arg \in Args
  /\ ret = NoCall

Convert ==
  /\ ret = NoCall
  /\ ret' = dogAgeToHuman(arg)
  /\ UNCHANGED <<lastEvent, dateInput, resultDiv, rootTheme, checked, switchText, store, storage, now, lastText, arg>>

NextConvert == Convert

SpecConvert == InitConvert /\ [][NextConvert]_vars

(***************************************************************************)
(* Properties                                                              *)
(***************************************************************************)
\* What a key reads back as
Stored(key) == readFromLS(store, storage, key)
\* A step of the click handler (a click, or Enter in the date field), of the
\* toggle handler, of the startup restore
CalcStep == lastEvent' = "click" /\ (Click \/ KeyDown("Enter"))
ToggleStep == lastEvent' = "toggle" /\ Toggle
RestoreStep == lastEvent = "load" /\ lastEvent' = "DOMContentLoaded"
IsSuccessText(text) ==
  /\ text # <<>>
  /\ Head(text) = "the dog is now about "
  /\ text \notin {MsgInvalidDate, MsgNotBeforeNow, MsgCalcFailed}

C3_ThemeAgrees ==
  Ready =>
    /\ rootTheme \in {Light, Dark}
    /\ Stored(LS_KEYS.THEME) = Str(rootTheme)
    /\ checked = (rootTheme = Dark)
    /\ switchText = (IF rootTheme = Dark THEN LabelDark ELSE LabelLight)

\* C3 witness: startup found a theme that is neither light nor dark and fell back to light
C3_Witness ==
  /\ lastEvent = "DOMContentLoaded"
  /\ store[LS_KEYS.BIRTH] = Str(Malformed)
  /\ rootTheme = Light
  /\ store[LS_KEYS.THEME] = Str(JSONStringify(Light))
  /\ ~checked
  /\ switchText = LabelLight

\* The class of a date-field value at a given instant
InputClass(val, clock) ==
  IF val = <<>> THEN "empty"
  ELSE IF DateParse(val).k = "nan" THEN "unparsable"
  ELSE IF clock <= DateParse(val).v THEN "nowOrLater"
  ELSE "past"

\* C4: a calculation attempt shows the message of the class of its input: the
\* valid-date prompt for an empty and for an unparsable date, the
\* earlier-than-now message for a date not before the current instant, a
\* success text for every date before it.
C4_MessageByClass ==
  [][CalcStep =>
       LET class == InputClass(dateInput, now) IN
         /\ (class \in {"empty", "unparsable"} => resultDiv' = MsgInvalidDate)
         /\ (class = "nowOrLater" => resultDiv' = MsgNotBeforeNow)
         /\ (class = "past" => IsSuccessText(resultDiv'))]_vars

\* C4 witness: an attempt on a date whose midnight is the current instant
C4_Witness ==
  /\ lastEvent = "click"
  /\ DateParse(dateInput) = Fin(now)
  /\ resultDiv = MsgNotBeforeNow

ThemeShown(t) ==
  /\ rootTheme' = t
  /\ checked' = (t = Dark)
  /\ switchText' = (IF t = Dark THEN LabelDark ELSE LabelLight)

\* C5: while the store refuses writes, every step leaves the stored contents
\* as they were, a calculation attempt still shows its message, and
\* applyTheme (on a toggle and at startup) still sets the root theme, the
\* toggle and the label.
C5_FailedWriteDoesNotInterrupt ==
  [][storage # "ok" =>
       /\ store' = store
       /\ (CalcStep =>
             /\ resultDiv' = lastText'
             /\ resultDiv' \in {MsgInvalidDate, MsgNotBeforeNow} \/ IsSuccessText(resultDiv'))
       /\ (ToggleStep => ThemeShown(IF checked THEN Light ELSE Dark))
       /\ (RestoreStep => ThemeShown(Light) \/ ThemeShown(Dark))]_vars

\* C5 witness: the theme was switched to dark while the store was full; the
\* page is dark and the store still says light
C5_Witness ==
  /\ lastEvent = "toggle"
  /\ storage = "full"
  /\ rootTheme = Dark
  /\ checked
  /\ switchText = LabelDark
  /\ store[LS_KEYS.THEME] = Str(JSONStringify(Light))

\* A key the store cannot give a value for: storage raises, nothing was
\* written, or what is there is not JSON
Unreadable(key) ==
  \/ storage = "disabled"
  \/ store[key] = JNull
  \/ ~JSONParse(store[key].s).ok

\* C6: the startup restore treats a key that was never written, a key whose
\* text does not parse and a raising store as absent: the field of such a key
\* keeps its value, the remaining keys are still restored (a readable result
\* is shown, the theme is applied, light when the theme is absent), and the
\* birth_date and result_text slots are as before.
C6_LoadNeverRaises ==
  [][RestoreStep =>
       /\ (Unreadable(LS_KEYS.BIRTH) => dateInput' = dateInput)
       /\ (Unreadable(LS_KEYS.RESULT) => resultDiv' = resultDiv)
       /\ (~Unreadable(LS_KEYS.RESULT) => Str(resultDiv') = JSONParse(store[LS_KEYS.RESULT].s).v)
       /\ (Unreadable(LS_KEYS.THEME) => ThemeShown(Light))
       /\ (ThemeShown(Light) \/ ThemeShown(Dark))
       /\ store'[LS_KEYS.BIRTH] = store[LS_KEYS.BIRTH]
       /\ store'[LS_KEYS.RESULT] = store[LS_KEYS.RESULT]]_vars

\* C6 witness: the restore skipped a birth date that is not JSON and went on to
\* show the stored result and to apply the theme
C6_Witness ==
  /\ lastEvent = "DOMContentLoaded"
  /\ store[LS_KEYS.BIRTH] = Str(Malformed)
  /\ dateInput = FreshField
  /\ storage = "ok"
  /\ Stored(LS_KEYS.RESULT) = Str(MsgInvalidDate)
  /\ resultDiv = MsgInvalidDate
  /\ rootTheme \in {Light, Dark}

\* C7 as stated: birth_date changes only on a date change or a calculation,
\* result_text only on a calculation, theme only on a theme toggle, and the
\* startup restore leaves all three slots as it found them.
C7_AsStated ==
  [][/\ (store'[LS_KEYS.BIRTH] # store[LS_KEYS.BIRTH] => lastEvent' \in {"change", "click"})
     /\ (store'[LS_KEYS.RESULT] # store[LS_KEYS.RESULT] => lastEvent' = "click")
     /\ (store'[LS_KEYS.THEME] # store[LS_KEYS.THEME] => lastEvent' = "toggle")
     /\ (RestoreStep => store' = store)]_vars

\* C7 amended: birth_date changes only on a date change or a calculation,
\* result_text only on a calculation, theme only on a theme toggle or at the
\* startup restore; the restore leaves birth_date and result_text as it found
\* them and, when the store accepts the write, leaves the applied theme in the
\* theme slot.
C7_SlotWriters ==
  [][/\ (store'[LS_KEYS.BIRTH] # store[LS_KEYS.BIRTH] => lastEvent' \in {"change", "click"})
     /\ (store'[LS_KEYS.RESULT] # store[LS_KEYS.RESULT] => lastEvent' = "click")
     /\ (store'[LS_KEYS.THEME] # store[LS_KEYS.THEME] => lastEvent' = "toggle" \/ RestoreStep)
     /\ (RestoreStep =>
           /\ store'[LS_KEYS.BIRTH] = store[LS_KEYS.BIRTH]
           /\ store'[LS_KEYS.RESULT] = store[LS_KEYS.RESULT]
           /\ (storage = "ok" => store'[LS_KEYS.THEME] = Str(JSONStringify(rootTheme'))))]_vars

\* C7 witness: the restore has replaced a foreign theme by light and left the
\* foreign birth date and result where they were
C7_Witness ==
  /\ lastEvent = "DOMContentLoaded"
  /\ store[LS_KEYS.BIRTH] = ForeignStore[LS_KEYS.BIRTH]
  /\ store[LS_KEYS.RESULT] = ForeignStore[LS_KEYS.RESULT]
  /\ store[LS_KEYS.THEME] # ForeignStore[LS_KEYS.THEME]
  /\ store[LS_KEYS.THEME] = Str(JSONStringify(Light))

\* 16 * ln(y) + 31
Reference(y) == Formula(MathLog(y))

\* C8: dogAgeToHuman returns null exactly for arguments <= 0; for a finite
\* argument y > 0 it returns 16 * ln(max(y, 0.01)) + 31, so every argument
\* between 0 and 0.01 gives what 0.01 gives; the call changes nothing else.
C8_ConvertAgreesWithReference ==
  /\ ret # NoCall =>
       /\ (ret = NumNull) = (arg.k = "ninf" \/ (arg.k = "fin" /\ arg.v <= 0))
       /\ (arg.k = "fin" /\ arg.v > 0 =>
             ret = Reference(Fin(IF arg.v > ClampTicks THEN arg.v ELSE ClampTicks)))
       /\ (arg.k = "fin" /\ arg.v > 0 /\ arg.v < ClampTicks => ret = Reference(Fin(ClampTicks)))
       /\ (arg.k = "inf" => ret = PosInf)
       /\ (arg.k = "nan" => ret = NaN)
  /\ lastEvent = "load" /\ store = EmptyStore /\ resultDiv = FreshResult /\ dateInput = FreshField

\* C8 witness: dogAgeToHuman has returned for an argument between 0 and 0.01
C8_Witness ==
  /\ arg.k = "fin" /\ arg.v > 0 /\ arg.v < ClampTicks
  /\ ret.k = "fin"
  /\ ret = Reference(Fin(ClampTicks))

C10_CalcFailedUnreachable ==
  /\ resultDiv # MsgCalcFailed
  /\ lastText # MsgCalcFailed
  /\ store[LS_KEYS.RESULT] # Str(JSONStringify(MsgCalcFailed))

\* C10 witness: an attempt on a date less than 0.01 year before the current
\* instant has shown a success text
C10_Witness ==
  /\ lastEvent = "click"
  /\ DateParse(dateInput).k = "fin"
  /\ now - DateParse(dateInput).v > 0
  /\ now - DateParse(dateInput).v < ClampTicks
  /\ IsSuccessText(resultDiv)
  /\ resultDiv = lastText

====
